---- MODULE Spec2Model ----
(***************************************************************************)
(* Model of `timoni mod import crd` (cmd/timoni/mod_import_crd.go).        *)
(*                                                                         *)
(* runImportCrdCmd is a single sequential function.  Each statement that   *)
(* touches the outside world (stat, open, read, decode, one iteration of   *)
(* the filter loop, the generator call, MkdirAll, WriteFile) is one action *)
(* so that the order of effects and the place where a run aborts are       *)
(* visible.  Strings that are compared, sorted or cleaned by the code      *)
(* (generation keys, path names, file contents) are sequences of           *)
(* one-character strings; a cleaned path is used on the file system as its *)
(* sequence of segments.                                                   *)
(***************************************************************************)
EXTENDS Integers, Sequences, FiniteSets, TLC

(* ------------------------------ bounds -------------------------------- *)
\* documents in the source YAML
MaxObjs == 2
\* entries in the map returned by the generator
MaxKeys == 2
\* consecutive invocations of the command on the same environment
MaxRuns == 2

(* --------------------------- string helpers --------------------------- *)
\* byte value of the characters that occur in the modelled strings
Ord(c) ==
  CASE c = "#" -> 35  [] c = "." -> 46  [] c = "/" -> 47  [] c = "_" -> 95
    [] c = "a" -> 97  [] c = "b" -> 98  [] c = "c" -> 99  [] c = "d" -> 100
    [] c = "e" -> 101 [] c = "g" -> 103 [] c = "l" -> 108 [] c = "m" -> 109
    [] c = "n" -> 110 [] c = "o" -> 111 [] c = "p" -> 112 [] c = "s" -> 115
    [] c = "t" -> 116 [] c = "u" -> 117 [] c = "y" -> 121

\* Go's < on strings: byte-wise lexicographic, a proper prefix is smaller
RECURSIVE StrLess(_, _)
StrLess(a, b) ==
  IF b = <<>> THEN FALSE
  ELSE IF a = <<>> THEN TRUE
  ELSE IF Ord(Head(a)) # Ord(Head(b)) THEN Ord(Head(a)) < Ord(Head(b))
  ELSE StrLess(Tail(a), Tail(b))

\* insert one string into an ascending list
RECURSIVE Insert(_, _)
Insert(x, s) ==
  IF s = <<>> THEN <<x>>
  ELSE IF StrLess(Head(s), x) THEN <<Head(s)>> \o Insert(x, Tail(s))
  ELSE <<x>> \o s

\* the keys left in map iteration order
SortStrings_unsorted(s) == s

\* sort.Strings(keys)
RECURSIVE SortStrings(_)
SortStrings(s) ==
  IF s = <<>> THEN <<>> ELSE Insert(Head(s), SortStrings(Tail(s)))

\* strings.Split(s, "/")
RECURSIVE Split(_)
Split(s) ==
  IF \A i \in 1..Len(s) : s[i] # "/" THEN <<s>>
  ELSE LET i == CHOOSE j \in 1..Len(s) :
                  s[j] = "/" /\ \A h \in 1..(j - 1) : s[h] # "/"
       IN  <<SubSeq(s, 1, i - 1)>> \o Split(SubSeq(s, i + 1, Len(s)))

\* strings.Join(segs, "/")
RECURSIVE Unsplit(_)
Unsplit(segs) ==
  IF segs = <<>> THEN <<>>
  ELSE IF Len(segs) = 1 THEN Head(segs)
  ELSE Head(segs) \o <<"/">> \o Unsplit(Tail(segs))

DotDot == <<".", ".">>

\* the segment pass of path.Clean on a relative path: empty and "." segments
\* are dropped, ".." removes the segment before it, or stays when there is none
RECURSIVE CleanSegs(_, _)
CleanSegs(segs, out) ==
  IF segs = <<>> THEN out
  ELSE LET h == Head(segs)
           t == Tail(segs)
       IN  IF h = <<>> \/ h = <<".">> THEN CleanSegs(t, out)
           ELSE IF h = DotDot /\ out # <<>> /\ out[Len(out)] # DotDot
                THEN CleanSegs(t, SubSeq(out, 1, Len(out) - 1))
           ELSE CleanSegs(t, Append(out, h))

\* path.Clean: an empty result is "."
Clean(p) ==
  LET c == Unsplit(CleanSegs(Split(p), <<>>))
  IN  IF c = <<>> THEN <<".">> ELSE c

\* the non-empty elements of a list, in order
RECURSIVE NonEmpty(_)
NonEmpty(elems) ==
  IF elems = <<>> THEN <<>>
  ELSE IF Head(elems) = <<>> THEN NonEmpty(Tail(elems))
  ELSE <<Head(elems)>> \o NonEmpty(Tail(elems))

\* path.Join: empty elements are ignored, the rest joined with "/" and cleaned;
\* all elements empty gives ""
PathJoin(elems) ==
  IF NonEmpty(elems) = <<>> THEN <<>> ELSE Clean(Unsplit(NonEmpty(elems)))

\* the segments of a cleaned path, the name the file system knows it by
Segs(p) == IF p = <<".">> THEN <<>> ELSE Split(p)

(* ------------------------------ strings ------------------------------- *)
\* importCrdArgs.modRoot, the positional argument
modRoot == <<"m">>
sCueMod == <<"c", "u", "e", ".", "m", "o", "d">>
sGen == <<"g", "e", "n">>
sTypesGen == <<"t", "y", "p", "e", "s", "_", "g", "e", "n", ".", "c", "u", "e">>
sOld == <<"o", "l", "d">>
KindCRD == "CustomResourceDefinition"
Separator == "---\n"

\* cueModDir := path.Join(importCrdArgs.modRoot, "cue.mod")
cueModDir == PathJoin(<<modRoot, sCueMod>>)
\* dstDir := path.Join(cueModDir, "gen", k)
DstDir(k) == PathJoin(<<cueModDir, sGen, k>>)
\* path.Join(dstDir, "types_gen.cue")
DstFile(k) == PathJoin(<<DstDir(k), sTypesGen>>)
\* the module's generated-sources root, <module-root>/cue.mod/gen
GenRoot == Segs(PathJoin(<<cueModDir, sGen>>))

(* ------------------------------- errors ------------------------------- *)
\* An error is the chain of its messages, outermost first; nil is empty.
\* The errors of package os are *PathError values: the operation and path,
\* then the system's error.
NoErr == <<>>
\* the cause passed on without context
Wrap_none(ctx, cause) == cause
\* fmt.Errorf("<ctx>: %w", cause)
Wrap(ctx, cause) == <<ctx>> \o cause
ErrNotModule == <<"cue.mod not found in the module path m">>
ErrPathNotFound == <<"path not found: crds.yaml">>
ErrOpen == <<"open crds.yaml", "permission denied">>
ErrRead == <<"read crds.yaml", "input/output error">>
ErrDecode == <<"yaml: malformed document">>
ErrMarshal == <<"json: unsupported value">>
ErrGenerate == <<"schema cannot be translated">>
ErrNotDir == <<"mkdir", "not a directory">>
ErrIsDir == <<"open", "is a directory">>
CtxParse == "parsing CRDs failed"
CtxMarshal == "marshaling CRD failed"

(* ---------------------------- file system ----------------------------- *)
\* A file system is [dirs: set of paths, files: path -> content]; a path is
\* its sequence of segments and the working directory is the empty path.
Prefixes(segs) == {SubSeq(segs, 1, n) : n \in 1..Len(segs)}
IsPrefix(a, b) == Len(a) <= Len(b) /\ SubSeq(b, 1, Len(a)) = a

\* os.Stat(p): what is at p
Stat(f, p) ==
  LET segs == Segs(p)
  IN  IF segs = <<>> \/ segs \in f.dirs THEN "dir"
      ELSE IF segs \in DOMAIN f.files THEN "file"
      ELSE "none"

\* os.MkdirAll(p, os.ModePerm): every missing directory on the way to p is
\* created; a file on the way makes it fail and nothing is created, since
\* all that lies above an existing file already exists
MkdirAll(f, p) ==
  LET segs == Segs(p)
  IN  IF \E q \in Prefixes(segs) : q \in DOMAIN f.files
      THEN [err |-> ErrNotDir, fs |-> f]
      ELSE [err |-> NoErr, fs |-> [f EXCEPT !.dirs = @ \cup Prefixes(segs)]]

\* a write that keeps what the file held
WriteFile_append(f, p, data) ==
  LET segs == Segs(p)
      parent == SubSeq(segs, 1, Len(segs) - 1)
  IN  IF segs = <<>> \/ segs \in f.dirs THEN [err |-> ErrIsDir, fs |-> f]
      ELSE IF ~(parent = <<>> \/ parent \in f.dirs) THEN [err |-> ErrNotDir, fs |-> f]
      ELSE [err |-> NoErr,
            fs |-> [f EXCEPT !.files =
                     [q \in DOMAIN f.files \cup {segs} |->
                        IF q = segs
                        THEN (IF segs \in DOMAIN f.files THEN f.files[segs] ELSE <<>>) \o data
                        ELSE f.files[q]]]]

\* os.WriteFile(p, data, 0644): creates the file or truncates it, then writes
\* data; fails when p is a directory or its parent is none
WriteFile(f, p, data) ==
  LET segs == Segs(p)
      parent == SubSeq(segs, 1, Len(segs) - 1)
  IN  IF segs = <<>> \/ segs \in f.dirs THEN [err |-> ErrIsDir, fs |-> f]
      ELSE IF ~(parent = <<>> \/ parent \in f.dirs) THEN [err |-> ErrNotDir, fs |-> f]
      ELSE [err |-> NoErr,
            fs |-> [f EXCEPT !.files =
                     [q \in DOMAIN f.files \cup {segs} |->
                        IF q = segs THEN data ELSE f.files[q]]]]

EmptyFiles == [q \in {} |-> <<>>]
\* crdData before anything was read
NoData == [wellFormed |-> TRUE, docs |-> <<>>]
pRoot == Segs(modRoot)
pCueMod == Segs(cueModDir)
pA == GenRoot \o <<(<<"a">>)>>
pAB == pA \o <<(<<"b">>)>>

\* the module trees a run may start from
FsInits ==
  { \* no cue.mod
    [dirs |-> {pRoot}, files |-> EmptyFiles],
    \* cue.mod is a file
    [dirs |-> {pRoot}, files |-> [q \in {pCueMod} |-> sOld]],
    \* a fresh module
    [dirs |-> {pRoot, pCueMod}, files |-> EmptyFiles],
    \* generated before: gen/a/types_gen.cue holds old content
    [dirs |-> {pRoot, pCueMod, GenRoot, pA},
     files |-> [q \in {pA \o <<sTypesGen>>} |-> sOld]],
    \* a file where the directory gen/a would be
    [dirs |-> {pRoot, pCueMod, GenRoot}, files |-> [q \in {pA} |-> sOld]],
    \* a directory where the file gen/a/b/types_gen.cue would be
    [dirs |-> {pRoot, pCueMod, GenRoot, pA, pAB, pAB \o <<sTypesGen>>},
     files |-> EmptyFiles] }

(* ------------------------- the source document ------------------------ *)
\* One YAML document of the source file; marshal says whether the decoded
\* object can be encoded again.
Doc(k, n, m) == [kind |-> k, name |-> n, marshal |-> m]
Docs ==
  { Doc(KindCRD, "widgets.example.com", TRUE),
    Doc(KindCRD, "gadgets.example.com", TRUE),
    Doc(KindCRD, "broken.example.com", FALSE),
    Doc("ConfigMap", "settings", TRUE),
    Doc("customresourcedefinition", "lower.example.com", TRUE) }
DocSeqs == UNION {[1..n -> Docs] : n \in 0..MaxObjs}

\* ssa.ReadObjects: the objects of the documents in document order, or the
\* decoder's error when a document is malformed
ReadObjects(data) ==
  IF ~data.wellFormed
  THEN [err |-> ErrDecode, objects |-> <<>>]
  ELSE [err |-> NoErr, objects |-> data.docs]

\* yaml.Marshal(object): the YAML text of one object
Marshal(o) ==
  IF o.marshal
  THEN [err |-> NoErr, data |-> <<"kind: ", o.kind, "\nmetadata:\n  name: ", o.name, "\n">>]
  ELSE [err |-> ErrMarshal, data |-> <<>>]

\* a filter that takes every object
IsCRD_any(o) == TRUE

\* a filter that compares the kind without regard to case
IsCRD_caseless(o) == o.kind \in {"CustomResourceDefinition", "customresourcedefinition"}

\* object.GetKind() == "CustomResourceDefinition"
IsCRD(o) == o.kind = KindCRD

(* ---------------------------- the generator --------------------------- *)
\* The keys a generator may return: plain, nested, with "." and ".."
\* segments, empty, and one that names the output file of another.
KeyUniverse ==
  { <<"a">>, <<"a", "/", "b">>, <<"a", "/", ".">>, <<>>,
    <<".", ".", "/", "a">>, <<"a", "/">> \o sTypesGen }

\* the source the generator produces for key k: the header, then the key's own
GenSource(k) == <<"#">> \o k

\* imp.Generate(buf): an error, or a map from keys to sources.  The
\* generator is outside this repository: any outcome is possible.
\* A failing generator may hand back what it had translated so far.
GenResults ==
  {[err |-> ErrGenerate, out |-> [k \in {<<"a">>} |-> GenSource(k)]]} \cup
  {[err |-> NoErr, out |-> [k \in K |-> GenSource(k)]] :
     K \in {X \in SUBSET KeyUniverse : Cardinality(X) <= MaxKeys}}

\* the orders in which ranging over a map may yield its keys
KeyOrders(K) ==
  {s \in [1..Cardinality(K) -> K] : \A x, y \in 1..Cardinality(K) : x # y => s[x] # s[y]}

(* ------------------------------- state -------------------------------- *)
VARIABLES
  fs,        \* the file system below the working directory
  srcType,   \* what importCrdArgs.crdFile names: "none", "dir" or "file"
  srcFault,  \* what is wrong with the source file: "ok", or it cannot be
             \* opened ("open"), cannot be read ("read"), is no YAML ("malformed")
  srcDocs,   \* the documents the source file holds when it is YAML
  genMemo,   \* what the generator answered for this source, once asked
  run,       \* number of the invocation
  pc,        \* the statement runImportCrdCmd is at; "done" after it returned
  err,       \* the error runImportCrdCmd returned
  opened,    \* os.Open was called on the source in this run
  crdData,   \* the bytes read from the source
  objects,   \* the decoded objects
  oi,        \* position of the filter loop
  builder,   \* the strings.Builder, as the list of chunks written to it
  genCalls,  \* the buffers passed to imp.Generate in this run
  crds,      \* the map the generator returned
  keys,      \* the sorted keys
  ki,        \* position of the write loop
  logs,      \* the keys announced by log.Info in this run
  effects,   \* the MkdirAll and WriteFile calls that succeeded in this run
  fsStart,   \* the file system when this run began
  fsPrev     \* the file system when the previous run ended, if there was one

env == <<srcType, srcFault, srcDocs>>
locals == <<opened, crdData, objects, oi, builder, genCalls, crds, keys, ki, logs, effects>>
vars == <<fs, env, genMemo, run, pc, err, locals, fsStart, fsPrev>>

Init ==
  /\ fs \in FsInits
  /\ srcType \in {"none", "dir", "file"}
  /\ srcFault \in (IF srcType = "file" THEN {"ok", "open", "read", "malformed"} ELSE {"ok"})
  /\ srcDocs \in (IF srcType = "file" /\ srcFault = "ok" THEN DocSeqs ELSE {<<>>})
  /\ genMemo = {}
  /\ run = 1
  /\ pc = "start"
  /\ err = NoErr
  /\ opened = FALSE
  /\ crdData = NoData
  /\ objects = <<>>
  /\ oi = 1
  /\ builder = <<>>
  /\ genCalls = <<>>
  /\ crds = EmptyFiles
  /\ keys = <<>>
  /\ ki = 1
  /\ logs = <<>>
  /\ effects = <<>>
  /\ fsStart = fs
  /\ fsPrev = {}

\* return e
Return(e) == err' = e /\ pc' = "done"

\* if fs, err := os.Stat(cueModDir); err != nil || !fs.IsDir()
ValidateModuleRoot ==
  /\ pc = "start"
  /\ IF Stat(fs, cueModDir) # "dir"
     THEN Return(ErrNotModule)
     ELSE pc' = "statSource" /\ UNCHANGED err
  /\ UNCHANGED <<fs, env, genMemo, run, locals, fsStart, fsPrev>>

\* a check that lets a directory through
SourceIsRegular_exists == srcType # "none"

\* os.Stat(crdFile) succeeded and fs.Mode().IsRegular()
SourceIsRegular == srcType = "file"

StatSource ==
  /\ pc = "statSource"
  /\ IF ~SourceIsRegular
     THEN Return(ErrPathNotFound)
     ELSE pc' = "open" /\ UNCHANGED err
  /\ UNCHANGED <<fs, env, genMemo, run, locals, fsStart, fsPrev>>

\* f, err := os.Open(importCrdArgs.crdFile)
OpenSource ==
  /\ pc = "open"
  /\ opened' = TRUE
  /\ IF srcType = "none" \/ srcFault = "open"
     THEN Return(ErrOpen)
     ELSE pc' = "read" /\ UNCHANGED err
  /\ UNCHANGED <<fs, env, genMemo, run, crdData, objects, oi, builder, genCalls,
                 crds, keys, ki, logs, effects, fsStart, fsPrev>>

\* crdData, err = io.ReadAll(f)
ReadSource ==
  /\ pc = "read"
  /\ IF srcType = "dir" \/ srcFault = "read"
     THEN Return(ErrRead) /\ UNCHANGED crdData
     ELSE /\ crdData' = [wellFormed |-> srcFault # "malformed", docs |-> srcDocs]
          /\ pc' = "decode"
          /\ UNCHANGED err
  /\ UNCHANGED <<fs, env, genMemo, run, opened, objects, oi, builder, genCalls,
                 crds, keys, ki, logs, effects, fsStart, fsPrev>>

\* objects, err := ssa.ReadObjects(bytes.NewReader(crdData))
Decode ==
  /\ pc = "decode"
  /\ LET r == ReadObjects(crdData)
     IN  IF r.err # NoErr
         THEN Return(Wrap(CtxParse, r.err)) /\ UNCHANGED objects
         ELSE /\ objects' = r.objects
              /\ pc' = IF r.objects = <<>> THEN "generate" ELSE "filter"
              /\ UNCHANGED err
  /\ UNCHANGED <<fs, env, genMemo, run, opened, crdData, oi, builder, genCalls,
                 crds, keys, ki, logs, effects, fsStart, fsPrev>>

\* one iteration of: for _, object := range objects
FilterStep ==
  /\ pc = "filter"
  /\ LET object == objects[oi]
         m == Marshal(object)
     IN  IF IsCRD(object) /\ m.err # NoErr
         THEN /\ builder' = Append(builder, Separator)
              /\ Return(Wrap(CtxMarshal, m.err))
              /\ UNCHANGED oi
         ELSE /\ builder' = IF IsCRD(object)
                            THEN Append(builder, Separator) \o m.data
                            ELSE builder
              /\ oi' = oi + 1
              /\ pc' = IF oi = Len(objects) THEN "generate" ELSE "filter"
              /\ UNCHANGED err
  /\ UNCHANGED <<fs, env, genMemo, run, opened, crdData, objects, genCalls,
                 crds, keys, ki, logs, effects, fsStart, fsPrev>>

\* a generator error that goes unnoticed
GenFailed_never(r) == FALSE

\* crds, err := imp.Generate(...); if err != nil
GenFailed(r) == r.err # NoErr

\* a WriteFile error that goes unnoticed
WriteFailed_never(r) == FALSE

\* if err := os.WriteFile(...); err != nil
WriteFailed(r) == r.err # NoErr

\* crds, err := imp.Generate([]byte(builder.String())), then the keys of the
\* map are collected in map order and sorted
Generate ==
  /\ pc = "generate"
  /\ genCalls' = Append(genCalls, builder)
  /\ \E r \in (IF genMemo = {} THEN GenResults ELSE genMemo) :
       /\ genMemo' = {r}
       /\ IF GenFailed(r)
          THEN Return(r.err) /\ UNCHANGED <<crds, keys>>
          ELSE /\ crds' = r.out
               /\ \E order \in KeyOrders(DOMAIN r.out) : keys' = SortStrings(order)
               /\ pc' = IF DOMAIN r.out = {} THEN "done" ELSE "mkdir"
               /\ UNCHANGED err
  /\ UNCHANGED <<fs, env, run, opened, crdData, objects, oi, builder, ki, logs,
                 effects, fsStart, fsPrev>>

\* the first half of one iteration of: for _, k := range keys
\*   log.Info(...); os.MkdirAll(dstDir, os.ModePerm)
MkdirStep ==
  /\ pc = "mkdir"
  /\ LET k == keys[ki]
         r == MkdirAll(fs, DstDir(k))
     IN  /\ logs' = Append(logs, k)
         /\ IF r.err # NoErr
            THEN Return(r.err) /\ UNCHANGED <<fs, effects>>
            ELSE /\ fs' = r.fs
                 /\ effects' = Append(effects, [op |-> "mkdir", key |-> k,
                                                path |-> Segs(DstDir(k)),
                                                data |-> <<>>])
                 /\ pc' = "write"
                 /\ UNCHANGED err
  /\ UNCHANGED <<env, genMemo, run, opened, crdData, objects, oi, builder, genCalls,
                 crds, keys, ki, fsStart, fsPrev>>

\* the second half: os.WriteFile(path.Join(dstDir, "types_gen.cue"), crds[k], 0644)
WriteStep ==
  /\ pc = "write"
  /\ LET k == keys[ki]
         r == WriteFile(fs, DstFile(k), crds[k])
     IN  IF WriteFailed(r)
         THEN Return(r.err) /\ UNCHANGED <<fs, effects, ki>>
         ELSE /\ fs' = r.fs
              /\ effects' = Append(effects, [op |-> "write", key |-> k,
                                             path |-> Segs(DstFile(k)),
                                             data |-> crds[k]])
              /\ ki' = ki + 1
              /\ pc' = IF ki = Len(keys) THEN "done" ELSE "mkdir"
              /\ UNCHANGED err
  /\ UNCHANGED <<env, genMemo, run, opened, crdData, objects, oi, builder, genCalls,
                 crds, keys, logs, fsStart, fsPrev>>

\* the command is run again on the same source and the same module root
Invoke ==
  /\ pc = "done"
  /\ run < MaxRuns
  /\ run' = run + 1
  /\ pc' = "start"
  /\ err' = NoErr
  /\ opened' = FALSE
  /\ crdData' = NoData
  /\ objects' = <<>>
  /\ oi' = 1
  /\ builder' = <<>>
  /\ genCalls' = <<>>
  /\ crds' = EmptyFiles
  /\ keys' = <<>>
  /\ ki' = 1
  /\ logs' = <<>>
  /\ effects' = <<>>
  /\ fsStart' = fs
  /\ fsPrev' = {fs}
  /\ UNCHANGED <<fs, env, genMemo>>

Next ==
  \/ ValidateModuleRoot
  \/ StatSource
  \/ OpenSource
  \/ ReadSource
  \/ Decode
  \/ FilterStep
  \/ Generate
  \/ MkdirStep
  \/ WriteStep
  \/ Invoke

Spec == Init /\ [][Next]_vars

(* ------------------------- auxiliary predicates ----------------------- *)
\* the chunks the buffer must hold for a list of objects: for each object of
\* kind CustomResourceDefinition, in order, one separator and its YAML
RECURSIVE CrdDocuments(_)
CrdDocuments(objs) ==
  IF objs = <<>> THEN <<>>
  ELSE (IF Head(objs).kind = "CustomResourceDefinition"
        THEN <<"---\n">> \o Marshal(Head(objs)).data
        ELSE <<>>) \o CrdDocuments(Tail(objs))

\* the number of documents in a buffer: its separators
DocumentCount(buf) == Cardinality({j \in 1..Len(buf) : buf[j] = "---\n"})
CrdCount(objs) == Cardinality({j \in 1..Len(objs) : objs[j].kind = "CustomResourceDefinition"})

\* the filter loop ran to its end in this run
FilterFinished ==
  \/ pc \in {"generate", "mkdir", "write"}
  \/ pc = "done" /\ genCalls # <<>>

\* the paths created or changed since the run began
NewDirs == fs.dirs \ fsStart.dirs
ChangedFiles ==
  {q \in DOMAIN fs.files : q \notin DOMAIN fsStart.files \/ fs.files[q] # fsStart.files[q]}
Untouched == fs = fsStart /\ effects = <<>>

\* the last effect of a kind on a path
LastOn(p) ==
  LET js == {j \in 1..Len(effects) : effects[j].op = "write" /\ effects[j].path = p}
  IN  effects[CHOOSE j \in js : \A h \in js : h <= j]

IOErrors == {ErrNotDir, ErrIsDir}

(* ------------------------------- claims ------------------------------- *)

\* C1: the buffer built by the filter loop is exactly the documents of the
\* objects whose kind is CustomResourceDefinition, in input order, each
\* preceded by one "---\n"; other kinds contribute nothing, so an all-CRD
\* input gives as many documents as objects and a CRD-free input an empty
\* buffer.  It holds after every iteration for the objects seen so far.
C1_FilterBuffer ==
  /\ pc = "filter" => builder = CrdDocuments(SubSeq(objects, 1, oi - 1))
  /\ FilterFinished =>
       /\ builder = CrdDocuments(objects)
       /\ DocumentCount(builder) = CrdCount(objects)
       /\ CrdCount(objects) = Len(objects) => DocumentCount(builder) = Len(objects)
       /\ CrdCount(objects) = 0 => builder = <<>>

\* a finished filter over a CRD followed by another kind and over two CRDs
C1_Witness ==
  /\ pc = "generate"
  /\ Len(objects) = 2
  /\ objects[1].kind = KindCRD
  /\ objects[2].kind # KindCRD
  /\ DocumentCount(builder) = 1

\* C2: the directories are created and the files written in strictly
\* ascending byte-wise key order: of two writes (or two MkdirAll calls) of
\* one run, the earlier has the smaller key.
C2_AscendingWrites ==
  \A x, y \in 1..Len(effects) :
    (x < y /\ effects[x].op = effects[y].op) => StrLess(effects[x].key, effects[y].key)

\* two keys have been written
C2_Witness ==
  /\ pc = "done"
  /\ Cardinality(DOMAIN crds) >= 2
  /\ Len(effects) = 2 * Cardinality(DOMAIN crds)

\* C3: nothing is created or written before module check, source load,
\* decode, filter and generate have all succeeded; a generator error ends the
\* run with that error and leaves the file system as it was.
C3_AllOrNothing ==
  /\ pc \in {"start", "statSource", "open", "read", "decode", "filter", "generate"}
       => Untouched
  /\ ~Untouched =>
       /\ Stat(fsStart, cueModDir) = "dir"
       /\ srcType = "file" /\ srcFault = "ok"
       /\ builder = CrdDocuments(objects)
       /\ genCalls = <<builder>>
       /\ \E r \in genMemo : r.err = NoErr /\ r.out = crds
  /\ (pc = "done" /\ genCalls # <<>> /\ \E r \in genMemo : r.err # NoErr)
       => (Untouched /\ err \in {r.err : r \in genMemo} /\ logs = <<>>)

\* a run that ended with the generator's error
C3_Witness ==
  /\ pc = "done"
  /\ genCalls # <<>>
  /\ \E r \in genMemo : r.err # NoErr /\ DOMAIN r.out # {}
  /\ err = ErrGenerate

\* C4: the source is opened and read only after both checks passed: without
\* a cue.mod directory the run fails with the not-a-module error, and with a
\* source that is missing or not a regular file with the not-found error,
\* and in neither case is the source opened or read.
C4_ChecksBeforeRead ==
  /\ (opened \/ crdData # NoData \/ pc \in {"open", "read"})
       => (Stat(fsStart, cueModDir) = "dir" /\ srcType = "file")
  /\ (pc = "done" /\ Stat(fsStart, cueModDir) # "dir")
       => (err = ErrNotModule /\ ~opened /\ crdData = NoData /\ Untouched)
  /\ (pc = "done" /\ Stat(fsStart, cueModDir) = "dir" /\ srcType # "file")
       => (err = ErrPathNotFound /\ ~opened /\ crdData = NoData /\ Untouched)

\* the source path names a directory inside a valid module
C4_Witness ==
  /\ pc = "done"
  /\ Stat(fsStart, cueModDir) = "dir"
  /\ srcType = "dir"
  /\ err = ErrPathNotFound

\* C5: a second run on the same source and module root leaves the file
\* system as the first run left it, and every write replaces what the file
\* held with exactly the new bytes.
C5_Idempotent ==
  /\ (pc = "done" /\ fsPrev # {}) => fs \in fsPrev
  /\ (pc \in {"mkdir", "done"} /\ effects # <<>> /\ effects[Len(effects)].op = "write")
       => LET e == effects[Len(effects)]
          IN  e.path \in DOMAIN fs.files /\ fs.files[e.path] = crds[e.key]

\* a second run that wrote over the files of the first
C5_Witness ==
  /\ pc = "done"
  /\ run = 2
  /\ err = NoErr
  /\ Len(effects) >= 2
  /\ \A j \in 1..Len(effects) :
       effects[j].op = "write" => effects[j].path \in DOMAIN fsStart.files

\* C6, as stated: every stage that fails after the two precondition checks
\* (source read, decode, generate, directory creation, file write) returns
\* an error that carries context naming the stage in front of its cause.
C6_EveryErrorWrapped ==
  (pc = "done" /\ err # NoErr /\ opened) => Len(err) >= 2

\* C6, amended: the run ends at the first failing stage with that stage's
\* error, nothing is retried and nothing swallowed; decode and re-encoding
\* failures are wrapped ("parsing CRDs failed: ...", "marshaling CRD failed:
\* ..."), while the generator's error and the os errors of open, read,
\* MkdirAll and WriteFile are returned as they are, with no context added.
C6_ErrorPropagation ==
  /\ err # NoErr => pc = "done"
  /\ Len(genCalls) <= 1
  /\ Len(logs) <= Len(keys)
  /\ pc = "done" =>
       /\ (opened /\ srcFault = "open") => err = ErrOpen
       /\ (opened /\ srcFault = "read") => err = ErrRead
       /\ (opened /\ srcFault = "malformed") => err = <<"parsing CRDs failed">> \o ErrDecode
       /\ (objects # <<>> /\ genCalls = <<>>) => err = <<"marshaling CRD failed">> \o ErrMarshal
       /\ (genCalls # <<>> /\ \E r \in genMemo : r.err # NoErr) => err = ErrGenerate
       /\ (keys # <<>> /\ Len(effects) < 2 * Len(keys)) => err \in IOErrors
       /\ err = NoErr =>
            /\ Stat(fsStart, cueModDir) = "dir" /\ srcType = "file" /\ srcFault = "ok"
            /\ \A j \in 1..Len(objects) : objects[j].kind = KindCRD => objects[j].marshal
            /\ \A r \in genMemo : r.err = NoErr
            /\ Len(effects) = 2 * Len(keys)

\* a malformed source reported as a parsing failure
C6_Witness ==
  /\ pc = "done"
  /\ srcFault = "malformed"
  /\ err = Wrap(CtxParse, ErrDecode)

\* C7: when MkdirAll or WriteFile fails for a key the run ends with that
\* error, nothing is created or written for a later key, and what was written
\* for earlier keys stays on disk with its new content; a run that ends
\* without error has written every key.
C7_AbortNoRollback ==
  /\ (pc = "done" /\ genCalls # <<>> /\ err = NoErr) => Len(effects) = 2 * Len(keys)
  /\ (pc = "done" /\ err \in IOErrors) =>
       /\ ki \in 1..Len(keys)
       /\ Len(effects) \in {2 * (ki - 1), 2 * (ki - 1) + 1}
       /\ logs = SubSeq(keys, 1, ki)
       /\ \A j \in 1..Len(effects) : effects[j].key = keys[(j + 1) \div 2]
  /\ \A j \in 1..Len(effects) :
       /\ effects[j].op = "mkdir" => effects[j].path \in fs.dirs
       /\ effects[j].op = "write" =>
            /\ effects[j].path \in DOMAIN fs.files
            /\ fs.files[effects[j].path] = LastOn(effects[j].path).data
  /\ NewDirs \subseteq
       UNION {Prefixes(effects[j].path) : j \in {h \in 1..Len(effects) : effects[h].op = "mkdir"}}
  /\ ChangedFiles \subseteq
       {effects[j].path : j \in {h \in 1..Len(effects) : effects[h].op = "write"}}

\* the first key was written, the second failed
C7_Witness ==
  /\ pc = "done"
  /\ err \in IOErrors
  /\ ki = 2
  /\ Len(effects) >= 2
  /\ effects[2].path \in ChangedFiles

\* C8: a source that decodes and holds no CustomResourceDefinition gives an
\* empty buffer and no error from the filter, the generator is still called,
\* with that empty buffer, and when it returns an empty map the run succeeds
\* without creating or writing anything.
C8_NoCrds ==
  (opened /\ srcFault = "ok" /\ CrdCount(srcDocs) = 0) =>
    /\ builder = <<>>
    /\ pc \in {"mkdir", "write", "done"} => genCalls = <<(<<>>)>>
    /\ (pc = "done" /\ \E r \in genMemo : r.err = NoErr /\ DOMAIN r.out = {})
         => (err = NoErr /\ Untouched /\ logs = <<>>)
    /\ pc = "done" => (err = NoErr \/ err \in IOErrors \/ err = ErrGenerate)

\* a source of two objects, none a CRD, and a generator with nothing to say
C8_Witness ==
  /\ pc = "done"
  /\ Len(objects) = 2
  /\ CrdCount(objects) = 0
  /\ genCalls = <<(<<>>)>>
  /\ DOMAIN crds = {}
  /\ err = NoErr

\* C9: whatever keys the generator returns, everything a run creates or
\* changes lies below <module-root>/cue.mod/gen.
C9_UnderGenRoot ==
  /\ \A q \in NewDirs \cup ChangedFiles : IsPrefix(GenRoot, q)
  /\ \A j \in 1..Len(effects) : IsPrefix(GenRoot, effects[j].path)

\* C10: a successful run leaves one file per key: each key's types_gen.cue
\* holds the bytes of that key, and there are as many files written as keys.
C10_OneFilePerKey ==
  (pc = "done" /\ err = NoErr /\ genCalls # <<>>) =>
    /\ \A k \in DOMAIN crds :
         /\ Segs(DstFile(k)) \in DOMAIN fs.files
         /\ fs.files[Segs(DstFile(k))] = crds[k]
    /\ Cardinality({effects[j].path : j \in {h \in 1..Len(effects) : effects[h].op = "write"}})
         = Cardinality(DOMAIN crds)

====
